---- MODULE Spec2Model ----
(***************************************************************************)
(* State-machine model of pacsman's pynetdicom client                      *)
(* (src/pacsman/pynetdicom_client.py, src/pacsman/dicom_interface.py).     *)
(*                                                                         *)
(* One public operation runs at a time on the calling thread; `pc` is its  *)
(* position.  The `with` scopes it has entered (association, storage_scp)  *)
(* are kept on the stack `scopes` and left innermost-first, as Python's    *)
(* context managers are.  The storage listener is a second thread.  The    *)
(* remote archive is the environment: it decides how a session opens,      *)
(* which (status, dataset) entries a response stream carries, and which    *)
(* instances it delivers to the listener while a move is being drained.    *)
(***************************************************************************)
EXTENDS Integers, Sequences, FiniteSets, TLC

VARIABLES
    op,         \* the public operation in progress ("idle" before the first call)
    arg,        \* its arguments
    pc,         \* position of the calling thread in the operation
    scopes,     \* stack of entered `with` scopes, innermost last
    assocs,     \* every session the operation has opened, in order
    scp,        \* the storage listener of the operation
    sources,    \* response generators left in the chain being iterated
    stream,     \* (status, dataset) entries pulled from the current chain
    yielded,    \* datasets checked_responses has yielded from it
    acc,        \* the operation's local accumulator (datasets, image_ids, ...)
    pending,    \* completion travelling out through the scopes
    result,     \* what the operation returned or raised to its caller
    log,        \* the operation's externally visible calls, in order
    files,      \* paths that exist on the local filesystem
    lastStore,  \* the last delivery handled by _on_c_store and its reply
    stores,     \* deliveries handled during the operation
    deliveries, \* the deliveries handled by the listener, in order
    outer,      \* series_for_study: the loop suspended by a count query
    relMayFail, \* environment: Association.release() may raise
    wide,       \* environment: status codes range over all 16-bit values
    burst,      \* environment: instances the archive delivers during one move
    callers,    \* two threads inside fetch_images_as_dicom_files: position, listener
    placed,     \* files written for the concurrent callers' moves
    record,     \* a patient record a caller folds studies into
    built       \* the last application of build_patient_result to it

vars ==
    <<op, arg, pc, scopes, assocs, scp, sources, stream, yielded, acc,
      pending, result, log, files, lastStore, stores, deliveries, relMayFail, wide, burst, callers, placed, record, built,
      outer>>

(***************************************************************************)
(* Bounds of the model.                                                    *)
(***************************************************************************)
MaxLen == 3         \* entries the archive sends on one response chain
MaxDeliver == 1     \* deliveries the archive makes during one operation
MaxBurst == 3       \* the same, where the listener is explored on its own
MaxCount == 1       \* entries the archive sends in answer to one count query

(***************************************************************************)
(* Status codes.                                                           *)
(***************************************************************************)
\* Mutant: the Warning code 0xB000 is accepted as well.
status_with_warning == {0, 65280, 65281, 45056}

status_success_or_pending == {0, 65280, 65281}   \* 0x0000, 0xFF00, 0xFF01

ProcessingFailure == 272                         \* 0x0110

\* Codes the archive answers with in the full model: Success, Pending,
\* and two failure codes (0xA700 out of resources, 0xC000 unable to process).
StatusSample == {0, 65280, 42752, 49152}

AllStatus == 0 .. 65535

Codes == IF wide THEN AllStatus ELSE StatusSample

\* '0x{0:04x}'.format(code): the four hexadecimal digits of a 16-bit code.
Hex4(code) ==
    << (code \div 4096) % 16, (code \div 256) % 16, (code \div 16) % 16, code % 16 >>

(***************************************************************************)
(* Datasets are records; hasattr(ds, a) is a \in DOMAIN ds.                *)
(***************************************************************************)
hasattr(ds, a) == a \in DOMAIN ds

\* The dataset of a response that carries no identifier.
EmptyDataset == [Empty |-> TRUE]

\* Dates are strings of digits, compared as Python compares strings.
NoDate == << >>
Date2020 == << 2, 0, 2, 0, 0, 1, 0, 1 >>
Date2021 == << 2, 0, 2, 1, 0, 5, 0, 5 >>

\* Mutant: every date counts as later than the one recorded.
StrGreater_any(a, b) == TRUE

RECURSIVE StrGreater(_, _)
StrGreater(a, b) ==
    IF a = << >> THEN FALSE
    ELSE IF b = << >> THEN TRUE
    ELSE IF Head(a) # Head(b) THEN Head(a) > Head(b)
    ELSE StrGreater(Tail(a), Tail(b))

SeriesId == "SER1"
Instances == {"A", "B"}

StudyDatasets ==
    { [PatientID |-> "P1", StudyInstanceUID |-> "ST1", StudyDate |-> Date2020],
      [PatientID |-> "P1", StudyInstanceUID |-> "ST2", StudyDate |-> Date2021],
      [PatientID |-> "P2", StudyInstanceUID |-> "ST3", StudyDate |-> NoDate],
      [PatientID |-> "P1", StudyInstanceUID |-> "ST4", StudyDate |-> NoDate] }

\* A study response that carries the patient id and no study instance id.
\* It is given to studies_for_patient, the query that filters its responses
\* by attribute.
StudyWithoutId == [PatientID |-> "P1", StudyDate |-> Date2020]

ImageDatasets ==
    { [SeriesInstanceUID |-> SeriesId, SOPInstanceUID |-> i] : i \in Instances }

\* Series-level responses: the instance count is a string, empty when the
\* archive does not report it.
SeriesDatasets ==
    { [SeriesInstanceUID |-> "SER1", Modality |-> "MR",
       NumberOfSeriesRelatedInstances |-> << 5 >>],
      [SeriesInstanceUID |-> "SER2", Modality |-> "CT",
       NumberOfSeriesRelatedInstances |-> << >>] }

\* Image-level responses to the count query of series_for_study.
CountDatasets == { [SeriesInstanceUID |-> "SER2", SOPInstanceUID |-> "A"] }

\* What one entry of a response stream can carry, by the request that was sent.
Datasets(o, p) ==
    IF p = "drain" \/ wide THEN {EmptyDataset}
    ELSE IF o = "search_patients" THEN StudyDatasets \cup {EmptyDataset}
    ELSE IF o = "studies_for_patient"
         THEN StudyDatasets \cup {StudyWithoutId, EmptyDataset}
    ELSE IF o = "search_series" \/ (o = "series_for_study" /\ ~outer.saved)
         THEN SeriesDatasets \cup {EmptyDataset}
    ELSE IF o = "series_for_study" THEN CountDatasets \cup {EmptyDataset}
    ELSE ImageDatasets \cup {EmptyDataset}

Entries(o, p) ==
    { [status |-> s, dataset |-> d] : s \in Codes, d \in Datasets(o, p) }

(***************************************************************************)
(* Paths.                                                                  *)
(***************************************************************************)
dicom_dir == << "dicom_dir" >>

DirPath(d) == [dir |-> d, stem |-> "", ext |-> ""]

\* os.path.join(result_dir, f'{SOPInstanceUID}.dcm')
DcmPath(result_dir, sop) == [dir |-> result_dir, stem |-> sop, ext |-> "dcm"]

\* os.path.splitext(dcm_path)[0] + '.png'
PngPath(dcm_path) == [dcm_path EXCEPT !.ext = "png"]

series_path == DirPath(Append(dicom_dir, SeriesId))

None == [dir |-> << >>, stem |-> "None", ext |-> ""]

exists(p) == p \in files

\* Mutant: the file is left where it is.
remove_skipped(fs, p) == fs

\* os.remove(p)
remove(fs, p) == fs \ {p}

(***************************************************************************)
(* Completions.                                                            *)
(***************************************************************************)
NoPending == [kind |-> "none", val |-> None]
Return(v) == [kind |-> "return", val |-> v]
Raise(e) == [kind |-> "raise", val |-> e]

Error(type, msg, code) == [type |-> type, msg |-> msg, code |-> code]

(***************************************************************************)
(* checked_responses: one entry of the stream is yielded or ends the       *)
(* iteration with an error that carries its status.                        *)
(***************************************************************************)
\* Mutant: the else branch is lost and every entry is yielded.
checked_responses_lenient(status) == "yield"

checked_responses(status) ==
    IF status \in status_success_or_pending THEN "yield" ELSE "raise"

ProtocolError(status) ==
    Error("Exception", "DICOM Response Failed With Status", Hex4(status))

(***************************************************************************)
(* association(): the session scope.                                       *)
(***************************************************************************)
AssocOutcomes == {"established", "rejected", "aborted", "unreachable"}

\* Mutant: a session that failed to open is taken as established.
is_established_any(a) == TRUE

is_established(a) == a.state = "established"
is_rejected(a) == a.state = "rejected"
is_aborted(a) == a.state = "aborted"

\* Mutant: one message for every way the session can fail to open.
AssociationError_generic(a) ==
    Error("ConnectionError", "Failed to establish association", << >>)

\* The error raised when the session is not established.
AssociationError(a) ==
    IF is_rejected(a) THEN Error("ConnectionError", "Association rejected", << >>)
    ELSE IF is_aborted(a)
         THEN Error("ConnectionError", "Received A-ABORT during association", << >>)
    ELSE Error("ConnectionError", "Failed to establish association", << >>)

\* What Association.release() raises when it fails.
ReleaseError == Error("ReleaseError", "release failed", << >>)

\* Mutant: the release in the finally clause is lost.
release_skipped(a) == a

\* assoc.release() in the scope's finally clause.
release(a) == [a EXCEPT !.releases = @ + 1]

\* A request (echo, find, move) sent on session a.
request(a) ==
    [a EXCEPT !.requests = @ + 1,
              !.late = @ + (IF a.releases > 0 THEN 1 ELSE 0)]

Top == scopes[Len(scopes)]
Pop == SubSeq(scopes, 1, Len(scopes) - 1)

\* The session bound by the innermost association scope.
CurAssoc ==
    LET ids == { i \in 1 .. Len(scopes) : scopes[i].kind = "assoc" }
    IN  scopes[CHOOSE i \in ids : \A j \in ids : j <= i].id

Sent(name) ==
    /\ assocs' = [assocs EXCEPT ![CurAssoc] = request(@)]
    /\ log' = Append(log, name)

(***************************************************************************)
(* StorageSCP and storage_scp(): the listener and its scope.               *)
(***************************************************************************)
NoScp == [state |-> "none", starts |-> 0, stops |-> 0, result_dir |-> << >>]

\* scp = StorageSCP(client_ae, result_dir); scp.start()
start(s, result_dir) ==
    [state |-> "starting", starts |-> s.starts + 1, stops |-> s.stops,
     result_dir |-> result_dir]

\* Mutant: the liveness check is lost.
is_alive_unchecked(s) == TRUE

\* Thread.is_alive(): started and run() has not ended.
is_alive(s) == s.state \in {"starting", "listening"}

\* Mutant: the listener is left running.
stop_skipped(s) == s

\* StorageSCP.stop()
stop(s) == [s EXCEPT !.state = "stopped", !.stops = @ + 1]

\* Mutant: every instance is written to the same file.
path_for_any_instance(s, sop) == DcmPath(s.result_dir, "instance")

path_for_dataset_instance(s, sop) == DcmPath(s.result_dir, sop)

(***************************************************************************)
(* DicomInterface.build_patient_result: fold one study into the patient's  *)
(* record.  Only the attributes the client derives are kept (PatientName   *)
(* and PatientBirthDate are copied through unchanged).                     *)
(***************************************************************************)
\* Mutant: the membership test never finds the study id.
Range_empty(q) == {}

Range(q) == { q[i] : i \in 1 .. Len(q) }

\* Mutant: the attribute is never found.
getattr_missing(ds, a, default) == default

getattr(ds, a, default) == IF hasattr(ds, a) THEN ds[a] ELSE default

\* Mutant: the patient ids are not compared and the study is folded in.
build_patient_result_unchecked(res, ds) ==
    [raised |-> FALSE,
     result |->
        IF res = EmptyDataset
        THEN [PatientID |-> ds.PatientID,
              PatientStudyIDs |-> << ds.StudyInstanceUID >>,
              PatientMostRecentStudyDate |-> getattr(ds, "StudyDate", NoDate)]
        ELSE [res EXCEPT !.PatientStudyIDs = Append(@, ds.StudyInstanceUID)]]

build_patient_result(res, ds) ==
    LET patient_id == ds.PatientID
        study_instance_uid == ds.StudyInstanceUID
        seeded ==
            IF res = EmptyDataset
            THEN [PatientID |-> patient_id,
                  PatientStudyIDs |-> << study_instance_uid >>,
                  PatientMostRecentStudyDate |-> getattr(ds, "StudyDate", NoDate)]
            ELSE IF study_instance_uid \notin Range(res.PatientStudyIDs)
                 THEN [res EXCEPT !.PatientStudyIDs = Append(@, study_instance_uid)]
            ELSE res
        study_date == getattr(ds, "StudyDate", NoDate)
        no_existing_date == seeded.PatientMostRecentStudyDate = NoDate
    IN  IF res # EmptyDataset /\ res.PatientID # patient_id
        THEN [raised |-> TRUE, result |-> res]
        ELSE IF study_date # NoDate
                /\ (no_existing_date
                    \/ StrGreater(study_date, seeded.PatientMostRecentStudyDate))
             THEN [raised |-> FALSE,
                   result |-> [seeded EXCEPT !.PatientMostRecentStudyDate = study_date]]
        ELSE [raised |-> FALSE, result |-> seeded]

\* patient_id_to_datasets[study.PatientID] on the defaultdict, kept in
\* insertion order: the index of the patient's record, 0 when it has none.
PatientIndex(a, pid) ==
    IF \E i \in 1 .. Len(a) : a[i].PatientID = pid
    THEN CHOOSE i \in 1 .. Len(a) : a[i].PatientID = pid
    ELSE 0

(***************************************************************************)
(* The body of each `for ... in checked_responses(...)` loop: the new      *)
(* accumulator, the completion the body ends with, and where control goes: *)
(* "loop" (next entry), "exit" (raise, or break out of the with block) or  *)
(* "associate" (series_for_study opens a session for a count query).       *)
(***************************************************************************)
Continue(a) == [acc |-> a, pending |-> NoPending, next |-> "loop"]

Fail(a, e) == [acc |-> a, pending |-> Raise(e), next |-> "exit"]

search_patients_body(a, study) ==
    IF ~hasattr(study, "PatientID")
    THEN Fail(a, Error("AttributeError", "PatientID", << >>))
    ELSE LET i == PatientIndex(a, study.PatientID)
             r == build_patient_result(IF i = 0 THEN EmptyDataset ELSE a[i], study)
         IN  IF r.raised
             THEN Fail(a, Error("ValueError", "different patient ID", << >>))
             ELSE Continue(IF i = 0 THEN Append(a, r.result)
                                    ELSE [a EXCEPT ![i] = r.result])

studies_for_patient_body(a, dataset) ==
    Continue(IF hasattr(dataset, "PatientID") THEN Append(a, dataset) ELSE a)

search_series_body(a, series) ==
    Continue(IF hasattr(series, "SeriesInstanceUID") THEN Append(a, series) ELSE a)

\* The series dataset series_for_study returns, with its instance count.
SeriesRecord(series, number) ==
    [SeriesInstanceUID |-> series.SeriesInstanceUID,
     Modality |-> series.Modality,
     NumberOfSeriesRelatedInstances |-> number]

\* A kept series with a reported count is appended; one with an empty count
\* first needs _count_images_via_query.
series_for_study_body(a, series) ==
    LET valid_dicom == hasattr(series, "SeriesInstanceUID")
        modality == getattr(series, "Modality", "")
        match == arg.modality_filter.none \/ modality \in arg.modality_filter.mods
    IN  IF valid_dicom /\ match
        THEN IF ~hasattr(series, "Modality")
                \/ ~hasattr(series, "NumberOfSeriesRelatedInstances")
             THEN Fail(a, Error("AttributeError", "series", << >>))
             ELSE IF series.NumberOfSeriesRelatedInstances # << >>
                  THEN Continue(Append(a,
                           SeriesRecord(series, series.NumberOfSeriesRelatedInstances)))
             ELSE [acc |-> a, pending |-> NoPending, next |-> "associate"]
        ELSE Continue(a)

\* Mutant: every image-level response is counted.
count_images_body_all(a, instance) == Continue(<< a[1] + 1 >>)

\* _count_images_via_query: image_count += 1; acc holds image_count.
count_images_body(a, instance) ==
    Continue(IF hasattr(instance, "SOPInstanceUID") THEN << a[1] + 1 >> ELSE a)

\* str(image_count)
Str(n) == IF n < 10 THEN << n >> ELSE << n \div 10, n % 10 >>

\* Mutant: the loop does not break at max_count.
images_for_series_body_unbounded(a, instance) ==
    Continue(IF hasattr(instance, "SOPInstanceUID")
             THEN Append(a, [SeriesInstanceUID |-> instance.SeriesInstanceUID,
                             SOPInstanceUID |-> instance.SOPInstanceUID])
             ELSE a)

\* max_count None is modelled as 0: both are false in `if max_count and ...`.
images_for_series_body(a, instance) ==
    IF hasattr(instance, "SOPInstanceUID")
    THEN LET ds == [SeriesInstanceUID |-> instance.SeriesInstanceUID,
                    SOPInstanceUID |-> instance.SOPInstanceUID]
             image_datasets == Append(a, ds)
         IN  IF arg.max_count # 0 /\ Len(image_datasets) >= arg.max_count
             THEN [acc |-> image_datasets, pending |-> NoPending, next |-> "exit"]
             ELSE Continue(image_datasets)
    ELSE Continue(a)

fetch_thumbnail_body(a, dataset) ==
    Continue(IF hasattr(dataset, "SOPInstanceUID")
             THEN Append(a, dataset.SOPInstanceUID) ELSE a)

\* check_responses: `for _ in checked_responses(responses): pass`
check_responses_body(a, dataset) == Continue(a)

LoopBody(a, dataset) ==
    IF pc = "drain" THEN check_responses_body(a, dataset)
    ELSE IF outer.saved THEN count_images_body(a, dataset)
    ELSE IF op = "search_patients" THEN search_patients_body(a, dataset)
    ELSE IF op = "studies_for_patient" THEN studies_for_patient_body(a, dataset)
    ELSE IF op = "search_series" THEN search_series_body(a, dataset)
    ELSE IF op = "series_for_study" THEN series_for_study_body(a, dataset)
    ELSE IF op = "images_for_series" THEN images_for_series_body(a, dataset)
    ELSE fetch_thumbnail_body(a, dataset)

\* Mutant: only Success counts, Pending does not.
verify_result_strict(status) == status = 0

\* verify(): the boolean returned for the echo status.
verify_result(status) == status \in status_success_or_pending

\* image_ids[len(image_ids) // 2]
middle_image_id(image_ids) == image_ids[(Len(image_ids) \div 2) + 1]

(***************************************************************************)
(* Initial states.                                                         *)
(***************************************************************************)
NoStore == [sop |-> "", status |-> -1]

\* modality_filter=None
NoFilter == [none |-> TRUE, mods |-> {}]

NoArgs == [sop_instance_id |-> "", max_count |-> 0, modality_filter |-> NoFilter]

NoFrame == [saved |-> FALSE]

\* Two threads of one client, each inside fetch_images_as_dicom_files for a
\* series id of its own.
Callers == {1, 2}

SeriesOf(c) == IF c = 1 THEN "SER1" ELSE "SER2"

\* series_path = os.path.join(self.dicom_dir, series_id)
series_path_of(c) == DirPath(Append(dicom_dir, SeriesOf(c)))

NoCaller == [pc |-> "idle", scp |-> NoScp, raised |-> FALSE]

\* No application of build_patient_result yet.
NoBuilt == [applied |-> FALSE]

Idle ==
    /\ op = "idle"
    /\ arg = NoArgs
    /\ pc = "idle"
    /\ scopes = << >>
    /\ assocs = << >>
    /\ scp = NoScp
    /\ sources = 0
    /\ stream = << >>
    /\ yielded = << >>
    /\ acc = << >>
    /\ pending = NoPending
    /\ result = NoPending
    /\ log = << >>
    /\ files = {}
    /\ lastStore = NoStore
    /\ stores = 0
    /\ deliveries = << >>
    /\ outer = NoFrame
    /\ callers = [c \in Callers |-> NoCaller]
    /\ placed = {}
    /\ record = EmptyDataset
    /\ built = NoBuilt

\* The toolkit's release() returns normally.
Init == Idle /\ relMayFail = FALSE /\ wide = FALSE /\ burst = MaxDeliver

\* The toolkit's release() may raise.
InitRelease == Idle /\ relMayFail = TRUE /\ wide = FALSE /\ burst = MaxDeliver

\* Status codes range over every 16-bit value, on streams of one entry.
InitStatus == Idle /\ relMayFail = FALSE /\ wide = TRUE /\ burst = MaxDeliver

\* The archive delivers up to MaxBurst instances during one move.
InitStore == Idle /\ relMayFail = FALSE /\ wide = FALSE /\ burst = MaxBurst

Limit == IF wide THEN 1 ELSE IF outer.saved THEN MaxCount ELSE MaxLen

(***************************************************************************)
(* A caller invokes a public operation.                                    *)
(***************************************************************************)
Retrievals == {"fetch_images_as_dicom_files", "fetch_image_as_dicom_file"}

\* The operations that read or write the local filesystem.
FileOperations == Retrievals \cup {"fetch_thumbnail"}

\* The operations whose loop ends the with block and whose return follows it.
ReturnAfterScope == {"search_series", "series_for_study", "images_for_series"}

Operations ==
    {"verify", "search_patients", "studies_for_patient"}
        \cup ReturnAfterScope \cup FileOperations

\* The arguments an operation is called with.
Args(o) ==
    IF o = "fetch_image_as_dicom_file"
    THEN { [NoArgs EXCEPT !.sop_instance_id = i] : i \in Instances }
    ELSE IF o = "images_for_series"
         THEN { [NoArgs EXCEPT !.max_count = n] : n \in {0, 1, 2} }
    ELSE IF o = "series_for_study"
         THEN { NoArgs,
                [NoArgs EXCEPT !.modality_filter = [none |-> FALSE, mods |-> {"CT"}]] }
    ELSE { NoArgs }

\* The operations that do not touch the filesystem behave the same whatever
\* it holds: they are explored on the initial filesystem only.
Invoke(o, a) ==
    /\ pc \in {"idle", "done"}
    /\ o \notin FileOperations => files = {}
    /\ op' = o
    /\ arg' = a
    /\ pc' = IF o \in Retrievals THEN "storage_scp" ELSE "associate"
    /\ scopes' = << >>
    /\ assocs' = << >>
    /\ scp' = NoScp
    /\ sources' = 0
    /\ stream' = << >>
    /\ yielded' = << >>
    /\ acc' = << >>
    /\ pending' = NoPending
    /\ result' = NoPending
    /\ log' = << >>
    /\ lastStore' = NoStore
    /\ stores' = 0
    /\ deliveries' = << >>
    /\ outer' = NoFrame
    /\ UNCHANGED <<files, relMayFail, wide, burst, callers, placed, record, built>>

Call == \E o \in Operations : \E a \in Args(o) : Invoke(o, a)

\* The calls made when the listener is explored on its own.
CallStore == \E o \in Retrievals : \E a \in Args(o) : Invoke(o, a)

\* The calls made when every status code is explored.
CallChecked == \E o \in {"verify", "studies_for_patient"} : Invoke(o, NoArgs)

(***************************************************************************)
(* association(): ae.associate(), then yield or raise ConnectionError.     *)
(***************************************************************************)
AfterAssociate ==
    IF op = "verify" THEN "echo"
    ELSE IF op \in Retrievals THEN "is_alive"
    ELSE "find"

association_enter ==
    /\ pc = "associate"
    /\ \E outcome \in AssocOutcomes :
        LET a == [state |-> outcome, releases |-> 0, requests |-> 0, late |-> 0]
        IN  /\ assocs' = Append(assocs, a)
            /\ scopes' = Append(scopes, [kind |-> "assoc", id |-> Len(assocs) + 1])
            /\ IF is_established(a)
               THEN pc' = AfterAssociate /\ pending' = pending
               ELSE pc' = "exit" /\ pending' = Raise(AssociationError(a))
    /\ log' = Append(log, "associate")
    /\ UNCHANGED <<op, arg, scp, sources, stream, yielded, acc, result, files,
                   lastStore, stores, deliveries, relMayFail, wide, burst, callers, placed, record, built, outer>>

\* finally: assoc.release().  An error raised by release() replaces whatever
\* completion was travelling out of the scope.  When the with block ended
\* without return or raise, control goes on with the statement after it.
association_exit ==
    /\ pc = "exit"
    /\ scopes # << >>
    /\ Top.kind = "assoc"
    /\ assocs' = [assocs EXCEPT ![Top.id] = release(@)]
    /\ scopes' = Pop
    /\ log' = Append(log, "release")
    /\ \E fails \in IF relMayFail THEN BOOLEAN ELSE {FALSE} :
        /\ pending' = IF fails THEN Raise(ReleaseError) ELSE pending
        /\ pc' = IF fails \/ pending.kind # "none" THEN "exit"
                 ELSE IF outer.saved THEN "counted"
                 ELSE IF op \in ReturnAfterScope THEN "after"
                 ELSE "exit"
    /\ UNCHANGED <<op, arg, scp, sources, stream, yielded, acc, result, files,
                   lastStore, stores, deliveries, relMayFail, wide, burst, callers, placed, record, built, outer>>

\* The operation returns or raises to its caller.
op_return ==
    /\ pc = "exit"
    /\ scopes = << >>
    /\ result' = IF pending.kind = "none" THEN Return(None) ELSE pending
    /\ pc' = "done"
    /\ UNCHANGED <<op, arg, scopes, assocs, scp, sources, stream, yielded, acc,
                   pending, log, files, lastStore, stores, deliveries, relMayFail, wide, burst, callers, placed, record, built, outer>>

(***************************************************************************)
(* verify()                                                                *)
(***************************************************************************)
\* status = assoc.send_c_echo(); acc holds the status the archive answered.
verify_echo ==
    /\ op = "verify"
    /\ pc = "echo"
    /\ \E status \in Codes :
        /\ acc' = << status >>
        /\ pending' = Return(verify_result(status))
    /\ Sent("send_c_echo")
    /\ pc' = "exit"
    /\ UNCHANGED <<op, arg, scopes, scp, sources, stream, yielded, result, files,
                   lastStore, stores, deliveries, relMayFail, wide, burst, callers, placed, record, built, outer>>

(***************************************************************************)
(* Queries: _find_patients / send_c_find, then the loop over               *)
(* checked_responses.                                                      *)
(***************************************************************************)
\* search_patients sends the PatientID pass and the PatientName pass and
\* chains the two response generators; the other queries send one request.
\* In _count_images_via_query, image_count = 0.
send_c_find ==
    /\ pc = "find"
    /\ IF op = "search_patients"
       THEN /\ assocs' = [assocs EXCEPT ![CurAssoc] = request(request(@))]
            /\ log' = log \o << "send_c_find", "send_c_find" >>
            /\ sources' = 2
       ELSE /\ Sent("send_c_find")
            /\ sources' = 1
    /\ stream' = << >>
    /\ yielded' = << >>
    /\ acc' = IF outer.saved THEN << 0 >> ELSE acc
    /\ pc' = "iter"
    /\ UNCHANGED <<op, arg, scopes, scp, pending, result, files,
                   lastStore, stores, deliveries, relMayFail, wide, burst, callers, placed, record, built, outer>>

\* One step of the generator and of the loop consuming it: the next entry
\* is yielded and the loop body runs, or the generator raises.
next_response ==
    /\ pc \in {"iter", "drain"}
    /\ Len(stream) < Limit
    /\ \E e \in Entries(op, pc) :
        /\ stream' = Append(stream, e)
        /\ IF checked_responses(e.status) = "yield"
           THEN LET b == LoopBody(acc, e.dataset)
                IN  /\ yielded' = Append(yielded, e.dataset)
                    /\ acc' = b.acc
                    /\ pending' = b.pending
                    /\ pc' = IF b.next = "loop" THEN pc ELSE b.next
                    /\ outer' = IF b.next = "associate"
                                THEN [saved |-> TRUE, series |-> e.dataset,
                                      stream |-> stream', yielded |-> yielded',
                                      acc |-> acc]
                                ELSE outer
           ELSE /\ yielded' = yielded
                /\ acc' = acc
                /\ pending' = Raise(ProtocolError(e.status))
                /\ pc' = "exit"
                /\ outer' = outer
    /\ UNCHANGED <<op, arg, scopes, assocs, scp, sources, result, log, files,
                   lastStore, stores, deliveries, relMayFail, wide, burst, callers, placed, record, built>>

\* The generator is exhausted and the loop was the last statement of the
\* with block.
loop_end ==
    /\ pc = "iter"
    /\ op \in ReturnAfterScope
    /\ pc' = "exit"
    /\ UNCHANGED <<op, arg, scopes, assocs, scp, sources, stream, yielded, acc,
                   pending, result, log, files, lastStore, stores, deliveries, relMayFail, wide, burst, callers, placed, record, built,
                   outer>>

\* `return datasets` after the with block.
return_datasets ==
    /\ pc = "after"
    /\ pending' = Return(acc)
    /\ pc' = "exit"
    /\ UNCHANGED <<op, arg, scopes, assocs, scp, sources, stream, yielded, acc,
                   result, log, files, lastStore, stores, deliveries, relMayFail, wide, burst, callers, placed, record, built, outer>>

\* _count_images_via_query returns image_count; series_for_study appends the
\* series with str(image_count) and goes on with the suspended loop.
count_images_return ==
    /\ pc = "counted"
    /\ acc' = Append(outer.acc, SeriesRecord(outer.series, Str(acc[1])))
    /\ stream' = outer.stream
    /\ yielded' = outer.yielded
    /\ outer' = NoFrame
    /\ pc' = "iter"
    /\ UNCHANGED <<op, arg, scopes, assocs, scp, sources, pending, result, log,
                   files, lastStore, stores, deliveries, relMayFail, wide, burst, callers, placed, record, built>>

\* itertools.chain: the first generator is exhausted, the next one follows.
chain_next ==
    /\ pc = "iter"
    /\ sources > 1
    /\ sources' = sources - 1
    /\ UNCHANGED <<op, arg, pc, scopes, assocs, scp, stream, yielded, acc, pending,
                   result, log, files, lastStore, stores, deliveries, relMayFail, wide, burst, callers, placed, record, built, outer>>

search_patients_return ==
    /\ op = "search_patients"
    /\ pc = "iter"
    /\ sources = 1
    /\ pending' = Return(acc)
    /\ pc' = "exit"
    /\ UNCHANGED <<op, arg, scopes, assocs, scp, sources, stream, yielded, acc,
                   result, log, files, lastStore, stores, deliveries, relMayFail, wide, burst, callers, placed, record, built, outer>>

studies_for_patient_return ==
    /\ op = "studies_for_patient"
    /\ pc = "iter"
    /\ sources = 1
    /\ pending' = Return(acc)
    /\ pc' = "exit"
    /\ UNCHANGED <<op, arg, scopes, assocs, scp, sources, stream, yielded, acc,
                   result, log, files, lastStore, stores, deliveries, relMayFail, wide, burst, callers, placed, record, built, outer>>

(***************************************************************************)
(* storage_scp(): the listener scope, and the listener thread.             *)
(***************************************************************************)
ResultDir == IF op = "fetch_thumbnail" THEN dicom_dir ELSE series_path.dir

storage_scp_enter ==
    /\ pc = "storage_scp"
    /\ scp' = start(scp, ResultDir)
    /\ scopes' = Append(scopes, [kind |-> "scp", id |-> 0])
    /\ log' = Append(log, "scp_start")
    /\ pc' = IF op = "fetch_thumbnail" THEN "is_alive" ELSE "associate"
    /\ UNCHANGED <<op, arg, assocs, sources, stream, yielded, acc, pending, result,
                   files, lastStore, stores, deliveries, relMayFail, wide, burst, callers, placed, record, built, outer>>

\* finally: scp.stop()
storage_scp_exit ==
    /\ pc = "exit"
    /\ scopes # << >>
    /\ Top.kind = "scp"
    /\ scp' = stop(scp)
    /\ scopes' = Pop
    /\ log' = Append(log, "scp_stop")
    /\ UNCHANGED <<op, arg, pc, assocs, sources, stream, yielded, acc, pending,
                   result, files, lastStore, stores, deliveries, relMayFail, wide, burst, callers, placed, record, built, outer>>

\* StorageSCP.run() on the listener thread: ae.start() binds the port and
\* serves, or fails and the thread ends.
StorageSCP_run ==
    /\ scp.state = "starting"
    /\ \E bound \in BOOLEAN :
        scp' = [scp EXCEPT !.state = IF bound THEN "listening" ELSE "dead"]
    /\ UNCHANGED <<op, arg, pc, scopes, assocs, sources, stream, yielded, acc,
                   pending, result, log, files, lastStore, stores, deliveries, relMayFail, wide, burst, callers, placed, record, built, outer>>

\* The status _on_c_store returns: 0x0000 at the end of the try block,
\* 0x0110 from the except clause.
on_c_store_status(outcome) == IF outcome = "saved" THEN 0 ELSE ProcessingFailure

\* Mutant: the exception is not caught and ends the listener thread.
on_c_store_uncaught(s, outcome) ==
    IF outcome = "saved" THEN s ELSE [s EXCEPT !.state = "dead"]

\* `except Exception` catches what makedirs or save_as raised: the listener
\* thread goes on serving.
on_c_store_thread(s, outcome) == s

\* StorageSCP._on_c_store on the listener thread, for an instance the archive
\* delivers while the move is in progress.  makedirs or save_as may fail; a
\* failed save_as may leave the file behind.
on_c_store ==
    /\ scp.state = "listening"
    /\ pc = "drain"
    /\ stores < burst
    /\ \E sop \in Instances, outcome \in {"saved", "makedirs_failed", "save_failed"},
          partial \in BOOLEAN :
        LET filepath == path_for_dataset_instance(scp, sop)
        IN  /\ files' =
                  IF outcome = "saved"
                  THEN files \cup {DirPath(scp.result_dir), filepath}
                  ELSE IF outcome = "save_failed"
                       THEN files \cup {DirPath(scp.result_dir)}
                                  \cup (IF partial THEN {filepath} ELSE {})
                  ELSE files
            /\ lastStore' = [sop |-> sop, status |-> on_c_store_status(outcome)]
            /\ deliveries' =
                  Append(deliveries,
                         [sop |-> sop, written |-> outcome = "saved",
                          status |-> on_c_store_status(outcome)])
            /\ scp' = on_c_store_thread(scp, outcome)
    /\ stores' = stores + 1
    /\ UNCHANGED <<op, arg, pc, scopes, assocs, sources, stream, yielded, acc,
                   pending, result, log, relMayFail, wide, burst, callers, placed, record, built, outer>>

(***************************************************************************)
(* The retrieval operations.                                               *)
(***************************************************************************)
\* if scp.is_alive(): responses = assoc.send_c_move(...)  else: raise
\* In fetch_thumbnail the move is for middle_image_id, the only image id the
\* operation uses from here on: acc holds it alone.
move_request ==
    /\ pc = "is_alive"
    /\ IF is_alive(scp)
       THEN /\ assocs' = [assocs EXCEPT ![CurAssoc] = request(@)]
            /\ log' = log \o << "is_alive", "send_c_move" >>
            /\ pending' = pending
            /\ pc' = "drain"
       ELSE /\ assocs' = assocs
            /\ log' = Append(log, "not_alive")
            /\ pending' = Raise(Error("Exception", "Storage SCP failed to start", << >>))
            /\ pc' = "exit"
    /\ acc' = IF op = "fetch_thumbnail" THEN << middle_image_id(acc) >> ELSE acc
    /\ sources' = 1
    /\ stream' = << >>
    /\ yielded' = << >>
    /\ UNCHANGED <<op, arg, scopes, scp, result, files, lastStore, stores, deliveries,
                   relMayFail, wide, burst, callers, placed, record, built, outer>>

\* return series_path if os.path.exists(series_path) else None
fetch_images_return ==
    /\ op = "fetch_images_as_dicom_files"
    /\ pc = "drain"
    /\ log' = Append(log, "exists")
    /\ pending' = Return(IF exists(series_path) THEN series_path ELSE None)
    /\ pc' = "exit"
    /\ UNCHANGED <<op, arg, scopes, assocs, scp, sources, stream, yielded, acc,
                   result, files, lastStore, stores, deliveries, relMayFail, wide, burst, callers, placed, record, built, outer>>

\* filepath = scp.path_for_dataset_instance(dataset)
\* return filepath if os.path.exists(filepath) else None
fetch_image_return ==
    /\ op = "fetch_image_as_dicom_file"
    /\ pc = "drain"
    /\ log' = Append(log, "exists")
    /\ LET filepath == path_for_dataset_instance(scp, arg.sop_instance_id)
       IN  pending' = Return(IF exists(filepath) THEN filepath ELSE None)
    /\ pc' = "exit"
    /\ UNCHANGED <<op, arg, scopes, assocs, scp, sources, stream, yielded, acc,
                   result, files, lastStore, stores, deliveries, relMayFail, wide, burst, callers, placed, record, built, outer>>

\* fetch_thumbnail, after the image-level query: no image ids, or start the
\* listener for the middle one.
fetch_thumbnail_ids ==
    /\ op = "fetch_thumbnail"
    /\ pc = "iter"
    /\ IF acc = << >>
       THEN pending' = Return(None) /\ pc' = "exit"
       ELSE pending' = pending /\ pc' = "storage_scp"
    /\ UNCHANGED <<op, arg, scopes, assocs, scp, sources, stream, yielded, acc,
                   result, log, files, lastStore, stores, deliveries, relMayFail, wide, burst, callers, placed, record, built, outer>>

\* fetch_thumbnail, after the move: absent file, or read and render it
\* (either may raise) and remove it in the finally clause.
fetch_thumbnail_return ==
    /\ op = "fetch_thumbnail"
    /\ pc = "drain"
    /\ log' = Append(log, "exists")
    /\ LET dcm_path == DcmPath(dicom_dir, acc[1])
       IN  IF ~exists(dcm_path)
           THEN pending' = Return(None) /\ files' = files
           ELSE /\ files' = remove(files, dcm_path)
                /\ \E rendered \in BOOLEAN :
                    pending' = IF rendered THEN Return(PngPath(dcm_path))
                               ELSE Raise(Error("RenderError", "thumbnail", << >>))
    /\ pc' = "exit"
    /\ UNCHANGED <<op, arg, scopes, assocs, scp, sources, stream, yielded, acc,
                   result, lastStore, stores, deliveries, relMayFail, wide, burst, callers, placed, record, built, outer>>

(***************************************************************************)
(* Specifications.                                                         *)
(***************************************************************************)
Next ==
    \/ Call
    \/ association_enter
    \/ association_exit
    \/ op_return
    \/ verify_echo
    \/ send_c_find
    \/ next_response
    \/ chain_next
    \/ search_patients_return
    \/ studies_for_patient_return
    \/ loop_end
    \/ return_datasets
    \/ count_images_return
    \/ storage_scp_enter
    \/ storage_scp_exit
    \/ StorageSCP_run
    \/ on_c_store
    \/ move_request
    \/ fetch_images_return
    \/ fetch_image_return
    \/ fetch_thumbnail_ids
    \/ fetch_thumbnail_return

NextChecked ==
    \/ CallChecked
    \/ association_enter
    \/ association_exit
    \/ op_return
    \/ verify_echo
    \/ send_c_find
    \/ next_response
    \/ studies_for_patient_return

NextStore ==
    \/ CallStore
    \/ storage_scp_enter
    \/ storage_scp_exit
    \/ StorageSCP_run
    \/ association_enter
    \/ association_exit
    \/ move_request
    \/ next_response
    \/ on_c_store
    \/ fetch_images_return
    \/ fetch_image_return
    \/ op_return

Spec == Init /\ [][Next]_vars

SpecRelease == InitRelease /\ [][Next]_vars

SpecStatus == InitStatus /\ [][NextChecked]_vars

SpecStore == InitStore /\ [][NextStore]_vars

(***************************************************************************)
(* Vocabulary of the properties.                                           *)
(***************************************************************************)
(***************************************************************************)
(* Two concurrent callers of fetch_images_as_dicom_files.  Every listener  *)
(* is built by StorageSCP.__init__ with port=11113 and the title           *)
(* '<client_ae>-SCP', so the two listeners name the same endpoint: the     *)
(* port belongs to the listener that bound it first, and the archive sends *)
(* the instances of every move to that one endpoint.  Sessions are taken   *)
(* as established; their failures are covered by the one-caller model.     *)
(***************************************************************************)
callVars ==
    <<op, arg, pc, scopes, assocs, scp, sources, stream, yielded, acc,
      pending, result, log, files, lastStore, stores, deliveries, outer,
      relMayFail, wide, burst>>

threadVars == <<callers, placed>>

buildVars == <<record, built>>

\* Port 11113 is bound by the other caller's listener.
PortHeld(c) == \E d \in Callers \ {c} : callers[d].scp.state = "listening"

\* with storage_scp(self.client_ae, series_path) as scp:
thread_storage_scp_enter ==
    \E c \in Callers :
        /\ callers[c].pc = "idle"
        /\ callers' = [callers EXCEPT
                ![c] = [pc |-> "associate",
                        scp |-> start(NoScp, series_path_of(c).dir),
                        raised |-> FALSE]]
        /\ UNCHANGED <<placed, callVars, buildVars>>

\* StorageSCP.run on the listener thread: ae.start() binds port 11113, and
\* the bind fails while another listener holds the port.
thread_StorageSCP_run ==
    \E c \in Callers :
        /\ callers[c].scp.state = "starting"
        /\ \E bound \in BOOLEAN :
            callers' = [callers EXCEPT
                ![c].scp.state =
                    IF bound /\ ~PortHeld(c) THEN "listening" ELSE "dead"]
        /\ UNCHANGED <<placed, callVars, buildVars>>

\* with association(self.client_ae, self.remote_ae, ...) as assoc:
thread_association_enter ==
    \E c \in Callers :
        /\ callers[c].pc = "associate"
        /\ callers' = [callers EXCEPT ![c].pc = "is_alive"]
        /\ UNCHANGED <<placed, callVars, buildVars>>

\* if scp.is_alive(): assoc.send_c_move(...)  else: raise Exception(...)
thread_move_request ==
    \E c \in Callers :
        /\ callers[c].pc = "is_alive"
        /\ callers' = [callers EXCEPT
                ![c].pc = IF is_alive(callers[c].scp) THEN "drain" ELSE "release",
                ![c].raised = ~is_alive(callers[c].scp)]
        /\ UNCHANGED <<placed, callVars, buildVars>>

\* The archive delivers an instance of caller c's move to the endpoint of
\* the move destination; _on_c_store of the listener bound there saves it
\* under that listener's result_dir.
thread_on_c_store ==
    \E c \in Callers, d \in Callers, sop \in Instances :
        /\ callers[c].pc = "drain"
        /\ callers[d].scp.state = "listening"
        /\ placed' = placed \cup
                { [move |-> c,
                   path |-> path_for_dataset_instance(callers[d].scp, sop)] }
        /\ UNCHANGED <<callers, callVars, buildVars>>

\* check_responses(responses) has consumed the move's responses.
thread_check_responses ==
    \E c \in Callers :
        /\ callers[c].pc = "drain"
        /\ callers' = [callers EXCEPT ![c].pc = "release"]
        /\ UNCHANGED <<placed, callVars, buildVars>>

\* association: finally: assoc.release()
thread_association_exit ==
    \E c \in Callers :
        /\ callers[c].pc = "release"
        /\ callers' = [callers EXCEPT ![c].pc = "stop"]
        /\ UNCHANGED <<placed, callVars, buildVars>>

\* storage_scp: finally: scp.stop(); the operation returns or raises.
thread_storage_scp_exit ==
    \E c \in Callers :
        /\ callers[c].pc = "stop"
        /\ callers' = [callers EXCEPT
                ![c].pc = "idle", ![c].scp = stop(callers[c].scp)]
        /\ UNCHANGED <<placed, callVars, buildVars>>

NextConcurrent ==
    \/ thread_storage_scp_enter
    \/ thread_StorageSCP_run
    \/ thread_association_enter
    \/ thread_move_request
    \/ thread_on_c_store
    \/ thread_check_responses
    \/ thread_association_exit
    \/ thread_storage_scp_exit

SpecConcurrent == Init /\ [][NextConcurrent]_vars

(***************************************************************************)
(* DicomInterface.build_patient_result is a static method a caller may     *)
(* apply to a record of its own: the record starts empty and every         *)
(* application folds one study into it or raises ValueError.               *)
(***************************************************************************)
\* result = Dataset()
new_patient_result ==
    /\ record # EmptyDataset
    /\ record' = EmptyDataset
    /\ built' = NoBuilt
    /\ UNCHANGED <<callVars, threadVars>>

\* The studies a caller folds: those of the queries and two dated studies
\* of the second patient.
BuildDatasets ==
    StudyDatasets \cup
        { [PatientID |-> "P2", StudyInstanceUID |-> "ST5", StudyDate |-> Date2021],
          [PatientID |-> "P2", StudyInstanceUID |-> "ST6", StudyDate |-> Date2020] }

\* DicomInterface.build_patient_result(result, ds)
apply_build_patient_result ==
    \E ds \in BuildDatasets :
        LET r == build_patient_result(record, ds)
        IN  /\ record' = r.result
            /\ built' = [applied |-> TRUE, before |-> record, ds |-> ds,
                         raised |-> r.raised]
            /\ UNCHANGED <<callVars, threadVars>>

NextBuild ==
    \/ new_patient_result
    \/ apply_build_patient_result

SpecBuild == Init /\ [][NextBuild]_vars

\* The codes the protocol classifies as Success (0x0000) or Pending
\* (0xFF00, 0xFF01); every other code is a Failure.
SuccessOrPendingCodes == {0, 65280, 65281}

IsFailure(status) == status \notin SuccessOrPendingCodes

\* The completion on its way to, or received by, the caller.
Completion == IF pc = "done" THEN result ELSE pending

\* The 16-bit value of four hexadecimal digits.
HexValue(d) == d[1] * 4096 + d[2] * 256 + d[3] * 16 + d[4]

Failures == { i \in 1 .. Len(stream) : IsFailure(stream[i].status) }

FirstFailure == CHOOSE k \in Failures : \A j \in Failures : k <= j

Count(name) == Cardinality({ i \in 1 .. Len(log) : log[i] = name })

(***************************************************************************)
(* C1: when the first Failure entry of a response stream is at position k, *)
(* checked_responses has yielded exactly the datasets of the k-1 entries   *)
(* before it, in arrival order, the iteration has ended with an error      *)
(* carrying that entry's status code, and no entry after position k has    *)
(* been consumed.                                                          *)
(***************************************************************************)
C1_FailureAtK ==
    Failures # {} =>
        LET k == FirstFailure
        IN  /\ Len(stream) = k
            /\ yielded = [i \in 1 .. k - 1 |-> stream[i].dataset]
            /\ pc \in {"exit", "done"}
            /\ Completion.kind = "raise"
            /\ Completion.val.type = "Exception"
            /\ Len(Completion.val.code) = 4
            /\ HexValue(Completion.val.code) = stream[k].status

C1_Witness ==
    /\ pc = "done"
    /\ op = "studies_for_patient"
    /\ Len(stream) = 3
    /\ Failures = {3}
    /\ Len(yielded) = 2
    /\ yielded[1] # yielded[2]
    /\ stream[3].status = 42752

(***************************************************************************)
(* C2: on a stream of Pending entries that carry datasets, ended by a      *)
(* Success entry with an empty dataset, checked_responses does not yield   *)
(* the trailing empty dataset: it has yielded as many datasets as the      *)
(* stream has non-empty entries, none of them empty, and search_patients   *)
(* (which folds every yielded dataset) does not fail on it.                *)
(***************************************************************************)
NonEmptyEntries == { i \in 1 .. Len(stream) : stream[i].dataset # EmptyDataset }

PendingThenEmptySuccess ==
    /\ Len(stream) >= 2
    /\ \A i \in 1 .. Len(stream) - 1 :
        stream[i].status = 65280 /\ stream[i].dataset # EmptyDataset
    /\ stream[Len(stream)].status = 0
    /\ stream[Len(stream)].dataset = EmptyDataset

C2_TrailingEmptyDropped ==
    (op \in {"search_patients", "studies_for_patient"} /\ PendingThenEmptySuccess) =>
        /\ Len(yielded) = Cardinality(NonEmptyEntries)
        /\ \A i \in 1 .. Len(yielded) : yielded[i] # EmptyDataset
        /\ Completion.kind # "raise"

(***************************************************************************)
(* C3: every session the association scope opened is released exactly once *)
(* when its scope exits (it has one release exactly when its scope is no   *)
(* longer entered), no request is sent on a session after its release, and *)
(* when the operation has returned or raised every session it opened has   *)
(* been released.                                                          *)
(***************************************************************************)
EnteredSessions == { scopes[i].id : i \in { j \in 1 .. Len(scopes) : scopes[j].kind = "assoc" } }

C3_ReleasedExactlyOnce ==
    /\ \A i \in 1 .. Len(assocs) :
        /\ assocs[i].releases = (IF i \in EnteredSessions THEN 0 ELSE 1)
        /\ assocs[i].late = 0
    /\ pc = "done" => \A i \in 1 .. Len(assocs) : assocs[i].releases = 1

C3_Witness ==
    /\ pc = "done"
    /\ op = "fetch_thumbnail"
    /\ result.kind = "raise"
    /\ Len(assocs) = 1
    /\ assocs[1].state = "established"
    /\ assocs[1].requests = 2
    /\ assocs[1].releases = 1

(***************************************************************************)
(* C4: when a session does not open because the remote rejected, aborted   *)
(* or could not be reached, the operation fails with a ConnectionError     *)
(* whose message tells the three reasons apart, the scoped body is never   *)
(* entered and no echo, query or move request is sent: none on the session *)
(* and none after its open step (the requests series_for_study sent on its *)
(* first session precede the open step of a count session).                *)
(***************************************************************************)
ReasonText(state) ==
    IF state = "rejected" THEN "Association rejected"
    ELSE IF state = "aborted" THEN "Received A-ABORT during association"
    ELSE "Failed to establish association"

C4_OpenFailure ==
    \A i \in 1 .. Len(assocs) :
        assocs[i].state # "established" =>
            /\ pc \in {"exit", "done"}
            /\ Completion.kind = "raise"
            /\ Completion.val.type = "ConnectionError"
            /\ Completion.val.msg = ReasonText(assocs[i].state)
            /\ assocs[i].requests = 0
            /\ i = Len(assocs)
            /\ \A j \in 1 .. Len(log) :
                log[j] \in {"send_c_echo", "send_c_find", "send_c_move"} =>
                    \E n \in j + 1 .. Len(log) : log[n] = "associate"

C4_Witness ==
    /\ pc = "done"
    /\ op = "fetch_image_as_dicom_file"
    /\ assocs[1].state = "aborted"
    /\ result.kind = "raise"
    /\ result.val.msg = "Received A-ABORT during association"

(***************************************************************************)
(* C5: when an error is travelling out of the association scope (raised by *)
(* the body or by the open step) and releasing the session fails too, the  *)
(* error the caller receives is still the original one: the release step   *)
(* never changes a pending error.                                          *)
(***************************************************************************)
C5_PendingErrorSurvivesRelease ==
    [][ (pc = "exit" /\ pending.kind = "raise" /\ scopes # << >> /\ Top.kind = "assoc")
            => pending' = pending ]_vars

(***************************************************************************)
(* C6: a retrieval operation starts at most one storage listener, and on   *)
(* every exit path the listener it started has been stopped, once, by the  *)
(* time the operation returns or raises.                                   *)
(***************************************************************************)
C6_ListenerStopped ==
    /\ scp.starts <= 1
    /\ scp.stops <= scp.starts
    /\ Count("scp_start") = scp.starts
    /\ pc = "done" =>
        /\ scp.stops = scp.starts
        /\ scp.starts = 1 => scp.state = "stopped"

C6_Witness ==
    /\ pc = "done"
    /\ op = "fetch_thumbnail"
    /\ result.kind = "raise"
    /\ result.val.type = "Exception"
    /\ Len(result.val.code) = 4
    /\ scp.starts = 1
    /\ scp.state = "stopped"

(***************************************************************************)
(* C7: a move request is sent only at the liveness check, by an operation  *)
(* whose listener has been started and is alive; when the listener is not  *)
(* alive at the check the operation raises and sends no move request.      *)
(***************************************************************************)
ThreadAlive == scp.starts = 1 /\ scp.state \in {"starting", "listening"}

C7_MoveAfterAlive ==
    [][ /\ Count("send_c_move")' > Count("send_c_move") =>
            pc = "is_alive" /\ ThreadAlive /\ Count("scp_start") = 1
        /\ (pc = "is_alive" /\ ~ThreadAlive) =>
            /\ Count("send_c_move")' = 0
            /\ pending'.kind = "raise"
            /\ pc' = "exit" ]_vars

C7_Witness ==
    /\ pc = "done"
    /\ op = "fetch_images_as_dicom_files"
    /\ Count("send_c_move") = 1
    /\ result.kind = "return"

(***************************************************************************)
(* C8: in fetch_images_as_dicom_files and fetch_image_as_dicom_file the    *)
(* destination path is looked up on disk only after the listener has been  *)
(* stopped: drain the move responses, stop the listener, read the path.    *)
(***************************************************************************)
C8_ExistsAfterStop ==
    op \in Retrievals =>
        \A i \in 1 .. Len(log) :
            log[i] = "exists" => \E j \in 1 .. i - 1 : log[j] = "scp_stop"

C10_Classification ==
    (op = "studies_for_patient" /\ Len(stream) = 1) =>
        LET status == stream[1].status
        IN  IF status = 0 \/ status = 65280 \/ status = 65281
            THEN /\ yielded = << stream[1].dataset >>
                 /\ Completion.kind # "raise"
            ELSE /\ yielded = << >>
                 /\ Completion.kind = "raise"
                 /\ HexValue(Completion.val.code) = status

C10_Witness ==
    /\ op = "studies_for_patient"
    /\ pc = "done"
    /\ Len(stream) = 1
    /\ stream[1].status = 65535
    /\ result.kind = "raise"
    /\ result.val.code = << 15, 15, 15, 15 >>

(***************************************************************************)
(* Vocabulary of the aggregation claims: the study records search_patients *)
(* has folded into one patient's record, and what they carry.              *)
(***************************************************************************)
Folded(pid) ==
    SelectSeq(yielded, LAMBDA d : hasattr(d, "PatientID") /\ d.PatientID = pid)

RECURSIVE FirstSeen(_)
FirstSeen(q) ==
    IF q = << >> THEN << >>
    ELSE LET front == FirstSeen(SubSeq(q, 1, Len(q) - 1))
             last == q[Len(q)]
         IN  IF \E i \in 1 .. Len(front) : front[i] = last
             THEN front ELSE Append(front, last)

StudyIdsOf(q) == [i \in 1 .. Len(q) |-> q[i].StudyInstanceUID]

\* The number a string of digits writes.
RECURSIVE DateValue(_)
DateValue(d) ==
    IF d = << >> THEN 0 ELSE 10 * DateValue(SubSeq(d, 1, Len(d) - 1)) + d[Len(d)]

DatesOf(q) == { q[i].StudyDate : i \in 1 .. Len(q) } \ { << >> }

Greatest(S) ==
    IF S = {} THEN << >>
    ELSE CHOOSE d \in S : \A e \in S : DateValue(e) <= DateValue(d)

(***************************************************************************)
(* C11: after folding any sequence of study records of one patient through *)
(* build_patient_result, the record's study-id list has no duplicates and  *)
(* equals the distinct study ids observed, in first-seen order; folding    *)
(* the same study record twice gives a list of size 1.                     *)
(***************************************************************************)
C11_StudyIdsFirstSeen ==
    op = "search_patients" =>
        \A i \in 1 .. Len(acc) :
            LET ids == acc[i].PatientStudyIDs
            IN  /\ ids = FirstSeen(StudyIdsOf(Folded(acc[i].PatientID)))
                /\ \A m, n \in 1 .. Len(ids) : ids[m] = ids[n] => m = n

C11_Witness ==
    /\ op = "search_patients"
    /\ Len(acc) = 1
    /\ Len(Folded(acc[1].PatientID)) = 2
    /\ Folded(acc[1].PatientID)[1] = Folded(acc[1].PatientID)[2]
    /\ Len(acc[1].PatientStudyIDs) = 1

(***************************************************************************)
(* C12: after folding any sequence of study records of one patient, in any *)
(* order, the record's most-recent-study-date is the greatest non-empty    *)
(* study date observed so far, and empty only when every observed date was *)
(* empty.  Holding in every state of the fold, it makes the value never    *)
(* decrease and not depend on the order of the studies.                    *)
(***************************************************************************)
C12_MostRecentDate ==
    op = "search_patients" =>
        \A i \in 1 .. Len(acc) :
            acc[i].PatientMostRecentStudyDate
                = Greatest(DatesOf(Folded(acc[i].PatientID)))

C12_Witness ==
    /\ op = "search_patients"
    /\ Len(acc) = 1
    /\ Len(Folded(acc[1].PatientID)) = 3
    /\ Folded(acc[1].PatientID)[1].StudyDate = NoDate
    /\ Folded(acc[1].PatientID)[2].StudyDate = Date2021
    /\ Folded(acc[1].PatientID)[3].StudyDate = Date2020
    /\ acc[1].PatientMostRecentStudyDate = Date2021

(***************************************************************************)
(* C13: search_patients sends the identifier pass and the name pass on one *)
(* session and, when every status is Success or Pending, returns exactly   *)
(* one record per distinct patient id observed across both passes, each    *)
(* study appearing once in its patient's study ids.                        *)
(***************************************************************************)
ObservedPatients ==
    { stream[i].dataset.PatientID :
        i \in { j \in 1 .. Len(stream) : hasattr(stream[j].dataset, "PatientID") } }

C13_OneRecordPerPatient ==
    ( /\ op = "search_patients"
      /\ pc = "done"
      /\ Len(assocs) = 1
      /\ assocs[1].state = "established"
      /\ \A i \in 1 .. Len(stream) : ~IsFailure(stream[i].status) ) =>
        /\ assocs[1].requests = 2
        /\ result.kind = "return"
        /\ Len(result.val) = Cardinality(ObservedPatients)
        /\ \A p \in ObservedPatients :
            \E i \in 1 .. Len(result.val) :
                /\ result.val[i].PatientID = p
                /\ result.val[i].PatientStudyIDs = FirstSeen(StudyIdsOf(Folded(p)))

(***************************************************************************)
(* Vocabulary of the listener claims.                                      *)
(***************************************************************************)
\* The file {instance id}.dcm of a directory.
NamedById(dir, id) == [dir |-> dir, stem |-> id, ext |-> "dcm"]

\* The instance files a directory holds.
InstanceFiles(fs, dir) == { f \in fs : f.dir = dir /\ f.ext = "dcm" }

AllWritten(ds) == \A i \in 1 .. Len(ds) : ds[i].written

Delivered(ds) == { ds[i].sop : i \in 1 .. Len(ds) }

\* The step is one delivery handled by the listener.
DeliveryStep == Len(deliveries') = Len(deliveries) + 1

(***************************************************************************)
(* C14: after any sequence of deliveries to one listener whose writes all  *)
(* succeed, result_dir holds one file {instance id}.dcm per distinct       *)
(* delivered id and every delivery, a re-delivery included, was answered   *)
(* with Success 0x0000.  Each such delivery adds the file of its id and no *)
(* other file (nothing when the file is already there), so the files of    *)
(* result_dir are those it held before plus one per distinct id: A, A, B   *)
(* leaves exactly two files.                                               *)
(***************************************************************************)
C14_OneFilePerInstance ==
    [][ /\ AllWritten(deliveries') =>
            \A i \in 1 .. Len(deliveries') :
                /\ deliveries'[i].status = 0
                /\ NamedById(scp'.result_dir, deliveries'[i].sop) \in files'
        /\ (DeliveryStep /\ deliveries'[Len(deliveries')].written) =>
            InstanceFiles(files', scp'.result_dir)
                = InstanceFiles(files, scp.result_dir)
                    \cup { NamedById(scp.result_dir, deliveries'[Len(deliveries')].sop) }
      ]_vars

C14_Witness ==
    /\ Len(deliveries) = 3
    /\ AllWritten(deliveries)
    /\ deliveries[1].sop = "A"
    /\ deliveries[2].sop = "A"
    /\ deliveries[3].sop = "B"
    /\ \A i \in 1 .. 3 : deliveries[i].status = 0
    /\ InstanceFiles(files, scp.result_dir)
        = { NamedById(scp.result_dir, "A"), NamedById(scp.result_dir, "B") }

(***************************************************************************)
(* C15: a delivery whose write fails is answered with the processing       *)
(* failure status 0x0110; the listener keeps running (it is listening      *)
(* for as long as its scope is entered), and a later delivery to it that   *)
(* is written is answered with Success and its file is on disk.            *)
(***************************************************************************)
C15_WriteFailureAnswered ==
    /\ \A i \in 1 .. Len(deliveries) :
        IF deliveries[i].written
        THEN /\ deliveries[i].status = 0
             /\ NamedById(scp.result_dir, deliveries[i].sop) \in files
        ELSE deliveries[i].status = 272
    /\ (Len(deliveries) > 0 /\ scp.stops = 0) => scp.state = "listening"

C15_Witness ==
    /\ Len(deliveries) = 2
    /\ ~deliveries[1].written
    /\ deliveries[1].status = 272
    /\ deliveries[2].written
    /\ deliveries[2].status = 0
    /\ deliveries[2].sop = deliveries[1].sop
    /\ scp.state = "listening"
    /\ NamedById(scp.result_dir, deliveries[2].sop) \in files

(***************************************************************************)
(* C16: fetch_image_as_dicom_file raises with the code of a Failure status *)
(* of the move exchange; when the exchange ended with only Success or      *)
(* Pending statuses it returns the path of the requested image's file when *)
(* that file exists, and when no instance was delivered it returns the     *)
(* absence marker and there is no file at the destination path.            *)
(***************************************************************************)
C16_FetchImage ==
    (op = "fetch_image_as_dicom_file" /\ pc = "done") =>
        LET filepath == NamedById(scp.result_dir, arg.sop_instance_id)
        IN  /\ Failures # {} =>
                /\ result.kind = "raise"
                /\ HexValue(result.val.code) = stream[FirstFailure].status
            /\ (Count("send_c_move") = 1 /\ Failures = {}) =>
                /\ result.kind = "return"
                /\ filepath \in files => result.val = filepath
                /\ deliveries = << >> =>
                    (result.val = None /\ filepath \notin files)

(***************************************************************************)
(* C17: series_for_study returns, in arrival order, exactly one record for *)
(* each response that carries a series identifier and whose modality       *)
(* passes the filter: every modality without a filter, otherwise only the  *)
(* modalities in modality_filter (CT, MR, CT with filter [CT]: 2 records). *)
(***************************************************************************)
PassesFilter(d) ==
    /\ hasattr(d, "SeriesInstanceUID")
    /\ arg.modality_filter.none \/ d.Modality \in arg.modality_filter.mods

SeriesKeys(q) ==
    [i \in 1 .. Len(q) |->
        [SeriesInstanceUID |-> q[i].SeriesInstanceUID, Modality |-> q[i].Modality]]

C17_SeriesFiltered ==
    (op = "series_for_study" /\ pc = "done" /\ result.kind = "return") =>
        SeriesKeys(result.val) = SeriesKeys(SelectSeq(yielded, PassesFilter))

C17_Witness ==
    /\ op = "series_for_study"
    /\ pc = "done"
    /\ result.kind = "return"
    /\ arg.modality_filter = [none |-> FALSE, mods |-> {"CT"}]
    /\ Len(yielded) = 3
    /\ yielded[1] # EmptyDataset /\ yielded[1].Modality = "CT"
    /\ yielded[2] # EmptyDataset /\ yielded[2].Modality = "MR"
    /\ yielded[3] # EmptyDataset /\ yielded[3].Modality = "CT"
    /\ Len(result.val) = 2

(***************************************************************************)
(* C18: images_for_series with a positive max_count never holds more than  *)
(* max_count records; once the max_count-th record is produced, by the     *)
(* last entry consumed, the stream is not consumed any further and the     *)
(* operation returns those records; the session is released exactly once.  *)
(***************************************************************************)
C18_StopsAtMaxCount ==
    (op = "images_for_series" /\ arg.max_count > 0) =>
        /\ Len(acc) <= arg.max_count
        /\ Len(acc) = arg.max_count =>
            /\ pc # "iter"
            /\ hasattr(stream[Len(stream)].dataset, "SOPInstanceUID")
            /\ ~IsFailure(stream[Len(stream)].status)
            /\ Completion.kind # "raise"
            /\ pc = "done" => result = Return(acc)
        /\ pc = "done" =>
            /\ Len(assocs) = 1
            /\ assocs[1].releases = 1

C18_Witness ==
    /\ op = "images_for_series"
    /\ pc = "done"
    /\ arg.max_count = 2
    /\ Len(stream) = 2
    /\ result.kind = "return"
    /\ Len(result.val) = 2
    /\ assocs[1].releases = 1

(***************************************************************************)
(* C19: fetch_thumbnail, for a series with n >= 1 image ids, requests the  *)
(* image whose id is at index floor(n/2) of the image ids sorted           *)
(* ascending, whatever the order the ids arrived in.                       *)
(***************************************************************************)
\* The position of an instance id in ascending order of the ids.
IdRank(id) == IF id = "A" THEN 1 ELSE 2

Occurrences(q, x) == Cardinality({ i \in 1 .. Len(q) : q[i] = x })

SortedIds(q) ==
    CHOOSE s \in [1 .. Len(q) -> Range(q)] :
        /\ \A i, j \in 1 .. Len(q) : i < j => IdRank(s[i]) <= IdRank(s[j])
        /\ \A x \in Range(q) : Occurrences(s, x) = Occurrences(q, x)

C19_MiddleOfSorted ==
    [][ (op = "fetch_thumbnail" /\ pc = "is_alive" /\ pc' = "drain") =>
            acc'[1] = SortedIds(acc)[(Len(acc) \div 2) + 1]
      ]_vars

(***************************************************************************)
(* C20: in fetch_thumbnail, when the retrieved file is found after the     *)
(* move, it is deleted in the same step that ends with the rendered path   *)
(* or with the rendering error, so it is gone before the operation returns *)
(* or raises; the rendering error reaches the caller after the listener    *)
(* was stopped and the session released.                                   *)
(***************************************************************************)
RenderFailure == Raise(Error("RenderError", "thumbnail", << >>))

C20_IntermediateDeleted ==
    [][ /\ ( /\ op = "fetch_thumbnail"
             /\ pc = "drain"
             /\ Count("exists")' = 1
             /\ NamedById(dicom_dir, acc[1]) \in files ) =>
            /\ NamedById(dicom_dir, acc[1]) \notin files'
            /\ pending' \in { RenderFailure,
                              Return([dir |-> dicom_dir, stem |-> acc[1], ext |-> "png"]) }
        /\ ( /\ op' = "fetch_thumbnail"
             /\ Count("exists")' = 1
             /\ Completion' = RenderFailure ) =>
            /\ NamedById(dicom_dir, acc'[1]) \notin files'
            /\ pc' = "done" =>
                /\ scp'.state = "stopped"
                /\ scp'.stops = 1
                /\ assocs'[1].releases = 1
      ]_vars

C20_Witness ==
    /\ op = "fetch_thumbnail"
    /\ pc = "done"
    /\ result = RenderFailure
    /\ Len(deliveries) = 1
    /\ deliveries[1].written
    /\ deliveries[1].sop = acc[1]
    /\ NamedById(dicom_dir, acc[1]) \notin files
    /\ scp.state = "stopped"
    /\ assocs[1].releases = 1

(***************************************************************************)
(* C21: every record studies_for_patient returns carries the patient id    *)
(* and the study instance id: the responses missing one of them are        *)
(* dropped and the others are returned in arrival order.                   *)
(***************************************************************************)
Identified(d) == hasattr(d, "PatientID") /\ hasattr(d, "StudyInstanceUID")

C21_IdentifiedStudies ==
    (op = "studies_for_patient" /\ pc = "done" /\ result.kind = "return") =>
        result.val = SelectSeq(yielded, Identified)

(***************************************************************************)
(* C22: whenever is_alive() reports true for a storage listener, its       *)
(* endpoint is already accepting inbound deliveries, so that in no         *)
(* interleaving of the listener thread and the requesting thread a move    *)
(* request is sent while the endpoint is not yet listening.                *)
(***************************************************************************)
C22_MoveWhenListening ==
    [][ Count("send_c_move")' > Count("send_c_move") =>
            (is_alive(scp) /\ scp.state = "listening")
      ]_vars

(***************************************************************************)
(* C23: in the three retrieval operations, fetch_thumbnail included, the   *)
(* listener is started before the session that carries the move is opened  *)
(* and that session is released before the listener is stopped.            *)
(***************************************************************************)
C23_ListenerAroundSession ==
    op \in FileOperations =>
        /\ \A i \in 1 .. Len(log) :
            log[i] = "associate" => \E j \in 1 .. i - 1 : log[j] = "scp_start"
        /\ \A i \in 1 .. Len(log) :
            log[i] = "scp_stop" => \E j \in 1 .. i - 1 : log[j] = "release"

\* The directory an instance delivered for caller c's move belongs in.
OwnDirectory(c) == Append(dicom_dir, SeriesOf(c))

(***************************************************************************)
(* C24: two retrieval operations for different series ids that run         *)
(* concurrently are independent: every instance delivered for one          *)
(* operation's move is persisted under that operation's result directory   *)
(* and never under the other's.                                            *)
(***************************************************************************)
C24_ConcurrentIndependent ==
    \A e \in placed : e.path.dir = OwnDirectory(e.move)

\* The responses the series-level loop of series_for_study has consumed.
PrimaryYielded == IF outer.saved THEN outer.yielded ELSE yielded

\* A kept series whose response has an empty instance count.
NeedsCount(d) == PassesFilter(d) /\ d.NumberOfSeriesRelatedInstances = << >>

CountQueriesDue ==
    Cardinality({ i \in 1 .. Len(PrimaryYielded) : NeedsCount(PrimaryYielded[i]) })

\* The sessions opened after the primary one.
Secondary == 2 .. Len(assocs)

CountedImages ==
    Cardinality({ i \in 1 .. Len(yielded) : hasattr(yielded[i], "SOPInstanceUID") })

Failed ==
    \/ \E i \in 1 .. Len(assocs) : assocs[i].state # "established"
    \/ \E i \in 1 .. Len(stream) : IsFailure(stream[i].status)

\* The session opens and the echo, query and move requests issued so far.
Requests ==
    Count("associate") + Count("send_c_echo") + Count("send_c_find")
        + Count("send_c_move")

(***************************************************************************)
(* C26: no operation retries: once a session open has failed or a response *)
(* stream has produced a Failure status, the operation issues no further   *)
(* open, echo, query or move request, and it ends by raising to its        *)
(* caller.                                                                 *)
(***************************************************************************)
C26_NoRetry ==
    /\ [][ (Failed /\ pc # "done") => Requests' = Requests ]_vars
    /\ [] ( (Failed /\ pc = "done") => result.kind = "raise" )

C26_Witness ==
    /\ op = "series_for_study"
    /\ pc = "done"
    /\ outer.saved
    /\ Len(assocs) = 2
    /\ Len(stream) = 1
    /\ IsFailure(stream[1].status)
    /\ result.kind = "raise"
    /\ Requests = 4

(***************************************************************************)
(* C27: build_patient_result applied to a non-empty patient record and a   *)
(* study whose patient id differs from the record's fails with ValueError  *)
(* and leaves the record's study-id list and most-recent-study-date        *)
(* unchanged.                                                              *)
(***************************************************************************)
C27_DifferentPatientRejected ==
    (/\ built.applied
     /\ built.before # EmptyDataset
     /\ built.before.PatientID # built.ds.PatientID) =>
        /\ built.raised
        /\ record.PatientStudyIDs = built.before.PatientStudyIDs
        /\ record.PatientMostRecentStudyDate = built.before.PatientMostRecentStudyDate

C27_Witness ==
    /\ built.applied
    /\ built.raised
    /\ built.before # EmptyDataset
    /\ built.before.PatientID = "P1"
    /\ built.ds.PatientID = "P2"
    /\ Len(record.PatientStudyIDs) = 2
    /\ record.PatientMostRecentStudyDate = Date2021

\* The listener of the current operation has handled no delivery.
NothingDelivered == deliveries = << >>

(***************************************************************************)
(* C28: a retrieval operation reports a path only for data delivered by    *)
(* its own move: when the move delivers nothing,                           *)
(* fetch_images_as_dicom_files and fetch_image_as_dicom_file return the    *)
(* absence marker, also when the destination path exists from an earlier   *)
(* operation.                                                              *)
(***************************************************************************)
C28_OwnDeliveryOnly ==
    (/\ op \in Retrievals
     /\ pc = "done"
     /\ result.kind = "return"
     /\ NothingDelivered) =>
        result.val = None

====
